---- MODULE Spec2Model ----
(***************************************************************************)
(* MULTI001: firmware images of a WiFi/MQTT sensor node (ESP8266).          *)
(*                                                                         *)
(* The repository holds eight near-duplicate sketches.  Each one is a      *)
(* setup() that loads a configuration from EEPROM, runs WiFiManager        *)
(* (captive portal), optionally saves the submitted configuration and      *)
(* either restarts or initialises the sensors, followed by a loop() that   *)
(* keeps the broker connection alive and publishes readings on a timer.    *)
(* The variable `variant' selects the sketch; every operator that depends  *)
(* on the sketch is written as a case split on it.                         *)
(*                                                                         *)
(*   "wemos"   src/MULTI001/firmware/Wemos/src/main.cpp                    *)
(*   "v10"     src/MULTI001/firmware/1.0/src/main.cpp                      *)
(*   "motion"  src/unnamed/part_001, lines 1-251                           *)
(*   "tilt"    src/unnamed/part_001, lines 253-584                         *)
(*   "mmotion" src/firmware/.../multi001-v1.cpp, lines 1-329               *)
(*   "htt"     src/unnamed/part_003                                        *)
(*   "httds"   src/unnamed/part_002                                        *)
(*   "mhtt"    src/firmware/.../multi001-v1.cpp, lines 331-813             *)
(*                                                                         *)
(* Time is the millisecond clock millis().  Sensor readings are kept in    *)
(* hundredths of the unit (2150 = 21.50) so that round() and the "%f"      *)
(* output of the older sketches can be told apart.                         *)
(***************************************************************************)
EXTENDS Integers, Sequences, FiniteSets, TLC

VARIABLES
  variant,                  \* the firmware image that is running
  eepromToken,              \* EEPROM byte 0: the validity marker
  eepromBody,               \* EEPROM from byte 1: the stored struct
  wifiSaved,                \* the WiFi layer holds network credentials
  pc,                       \* position of the main thread
  mqttConfig,               \* the struct in RAM
  shouldSaveConfig,         \* set by saveConfigCallback
  res,                      \* result of wifiManager.autoConnect
  connected,                \* mqttClient.connected()
  now,                      \* loop(): long now = millis()
  mqttPublishSoftDeadline,  \* loop(): static (the only deadline of the
                            \*   single-interval sketches)
  mqttPublishHardDeadline,  \* loop(): static
  jsonBuffer,               \* StaticJsonDocument: key -> value or Null
  MOTION_DETECTED,          \* latch of "motion"
  DETECTED_MOTION,          \* global of "wemos", "v10", "mmotion"
  clock,                    \* millis()
  params,                   \* values held by the WiFiManagerParameter objects
  dallasDeviceCount,        \* "httds": set by setup()
  nullIsZero,               \* the ArduinoJson build compares null with 0 as equal
  brokerUp,                 \* the broker accepts connections
  env,                      \* what the sensors would read right now
  eepromBuffer,             \* the EEPROM library's RAM copy between begin() and end()
  epoch,                    \* millis() at the point where `clock' counts from
  macAddress,               \* WiFi.macAddress(): the six bytes of the station address
  moduleId,                 \* moduleId (macAddressString where the sketch has that)
  wifiAccessPointName,      \* the name handed to wifiManager.autoConnect
  hist                      \* observations of the run (not program state)

vars == << variant, eepromToken, eepromBody, wifiSaved, pc, mqttConfig,
           shouldSaveConfig, res, connected, now, mqttPublishSoftDeadline,
           mqttPublishHardDeadline, jsonBuffer, MOTION_DETECTED,
           DETECTED_MOTION, clock, params, dallasDeviceCount, nullIsZero,
           brokerUp, env, eepromBuffer, epoch, macAddress, moduleId,
           wifiAccessPointName, hist >>

-----------------------------------------------------------------------------
(* Program constants                                                       *)

MQTT_PUBLISH_SOFT_INTERVAL == 3000
MQTT_PUBLISH_HARD_INTERVAL == 30000
MQTT_PUBLISH_INTERVAL == 30000
MQTT_RETRY_DELAY == 5000
STORAGE_TEST_VALUE == 174
ERASED_BYTE == 255
SENSOR_UNDEFINED_VALUE == 999
TEMPERATURE_ERROR_VALUE == 99999
DEBUG_SERIAL_START_DELAY == 2000
WEMOS_SERIAL_START_DELAY == 4000
LONG_MAX == 2147483647

(* Bounds of the exploration                                               *)

MaxClock == 40000     \* no step starts after this time
LoopMs == 2000        \* duration of one pass of loop()
MaxChanges == 1       \* sensor-input changes per run
MaxOutages == 1       \* broker outages per run
BootMs == 2000        \* time to reach autoConnect where setup() has no delay
MaxEventAt == 6000    \* the inputs and the broker change no later than this
MaxEdges == 1         \* changes of the PIR level per run
MaxBoots == 2         \* boot cycles per run
MaxSaves == 2         \* saveConfig calls per run of the store specification

-----------------------------------------------------------------------------
(* The firmware images and what distinguishes them                         *)

Variants == {"wemos", "v10", "motion", "tilt", "mmotion", "htt", "httds", "mhtt"}

\* loop() keeps a soft and a hard deadline and a change detector
TwoTimer(v) == v \in {"htt", "httds", "mhtt"}

\* loop() tests a motion flag beside the deadline
TriggerDriven(v) == v \in {"motion", "mmotion"}

\* loadConfig returns a boolean and setup() calls resetSettings() on false
ResetsOnAbsent(v) == v \in {"tilt", "mmotion", "htt", "httds", "mhtt"}

\* setup() calls wifiManager.setBreakAfterConfig(true)
BreakAfterConfig(v) == v \notin {"wemos", "v10"}

\* setup() calls wifiManager.setConfigPortalTimeout(180)
PortalTimeout(v) == v # "wemos"

\* setup() saves inside the branch taken when autoConnect returned true
SavesOnlyWhenJoined(v) == v \in {"wemos", "v10"}

\* number of switch inputs read by loop()
SwitchCount(v) ==
  CASE v \in {"htt", "httds", "mmotion"} -> 4
    [] v = "mhtt" -> 2
    [] v = "tilt" -> 1
    [] OTHER -> 0

\* the sketch polls an AM2322 humidity/temperature sensor
HasAM2322(v) == v \in {"tilt", "htt", "httds", "mhtt"}

\* the sketch polls Dallas one-wire thermometers
HasDallas(v) == v \in {"wemos", "v10", "motion", "mmotion", "httds"}

\* the sketch reads the PIR input
HasPIR(v) == v \in {"wemos", "v10", "motion", "mmotion"}

-----------------------------------------------------------------------------
(* Configuration records and the EEPROM                                    *)

\* a member of the JSON document that was never set (readings are never negative here)
Null == 0 - 1

\* struct MQTT_CONFIG / USER_CONFIGURATION: the fields the model follows.
\* sw[i] is the property name of switch i-1; soft and hard exist in "mhtt".
ZeroConfig == [servername |-> "", sw |-> <<"", "", "", "">>, soft |-> 0, hard |-> 0]

\* what mqttConfig holds when nothing was loaded from EEPROM
DefaultConfig(v) ==
  IF v = "wemos" THEN [ZeroConfig EXCEPT !.servername = "192.168.1.206"]
  ELSE ZeroConfig

\* the sketch lets the operator name the switches
HasAliases(v) == v \in {"htt", "httds", "mhtt"}

\* the compile-time defaults of the portal fields
CompiledParams(v) ==
  IF v = "mhtt"
  THEN [servername |-> "", sw |-> <<"sw0", "sw1", "", "">>, soft |-> MQTT_PUBLISH_SOFT_INTERVAL,
        hard |-> MQTT_PUBLISH_HARD_INTERVAL]
  ELSE ZeroConfig

\* the WiFiManagerParameter objects that are registered with the manager.
\* In "tilt", "mmotion", "htt" and "httds" the objects built from the loaded
\* configuration are locals of the if-block; the registered ones keep the
\* compile-time defaults.
InitialParams(v, loaded, cfg) ==
  CASE v \in {"wemos", "v10", "motion"} -> cfg
    [] v = "mhtt" -> IF loaded THEN cfg ELSE CompiledParams(v)
    [] OTHER -> CompiledParams(v)

\* loadConfig: the struct is read only when byte 0 holds the token
loadConfig(v, token, body, cfg) ==
  IF token = STORAGE_TEST_VALUE
  THEN [loaded |-> TRUE, config |-> body]
  ELSE [loaded |-> FALSE, config |-> IF v = "wemos" THEN DefaultConfig(v) ELSE cfg]

\* the strcpy/atoi block of setup(): the portal values overwrite the struct
MergeForm(v, cfg, p) ==
  [servername |-> p.servername,
   sw |-> IF HasAliases(v) THEN p.sw ELSE cfg.sw,
   soft |-> IF v = "mhtt" THEN p.soft ELSE cfg.soft,
   hard |-> IF v = "mhtt" THEN p.hard ELSE cfg.hard]

\* saveConfig: EEPROM.write(0, token); EEPROM.put(1, config); EEPROM.commit()
saveConfigUnmarked(cfg) == [token |-> ERASED_BYTE, body |-> cfg]

saveConfig(cfg) == [token |-> STORAGE_TEST_VALUE, body |-> cfg]

\* a faulty save test, one that saves on every boot
SaveIsDueAlways(v, flag, joined) == TRUE

\* a faulty save test, one that looks at the join and not at the flag
SaveIsDueWhenJoined(v, flag, joined) == joined

\* setup() reaches its save block with the callback flag set
SaveIsDue(v, flag, joined) ==
  flag /\ (SavesOnlyWhenJoined(v) => joined)

\* a faulty result test, one that never restarts
GoesOperationalAlways(joined) == TRUE

\* setup() goes on to the sensors instead of ESP.restart()
GoesOperational(joined) == joined

\* what the operator may type into the portal
Servers == {"", "mqtt.lan"}

AliasForms(v) ==
  CASE v = "mhtt" -> {<<"sw0", "sw1", "", "">>, <<"", "sw1", "", "">>}
    [] v \in {"htt", "httds"} -> {<<"", "", "", "">>, <<"door", "", "", "">>}
    [] OTHER -> {<<"", "", "", "">>}

Forms(v, p) ==
  {[p EXCEPT !.servername = s, !.sw = a] : s \in Servers, a \in AliasForms(v)}

\* configurations found in the EEPROM of a device that was configured before
StoredConfigs(v) ==
  {[CompiledParams(v) EXCEPT !.servername = "mqtt.lan", !.sw = a] : a \in AliasForms(v)}

-----------------------------------------------------------------------------
(* Arithmetic of the sketch                                                *)

\* a + b in a (32-bit, signed) long, for b >= 0: past LONG_MAX the sum wraps
AddLong(a, b) ==
  IF a > LONG_MAX - b THEN (a - LONG_MAX - 1) + (b - LONG_MAX - 1) ELSE a + b

\* (int) round(x) of a reading x given in hundredths
Round(x) ==
  IF x >= 0 THEN (x + 50) \div 100 ELSE 0 - ((50 - x) \div 100)

\* (int) jsonBuffer[key]: a member that was never set converts to 0
AsInt(x) == IF x = Null THEN 0 ELSE x

\* jsonBuffer[key] != value, without a cast: builds differ on null against 0
VariantDiffers(x, val, legacy) ==
  IF x = Null THEN (IF legacy THEN val # 0 ELSE TRUE) ELSE x # val

-----------------------------------------------------------------------------
(* The sensors                                                             *)

DallasKey == "DST28ff0102"

Keys == {"humidity", "temperature", DallasKey, "", "door", "sw0", "sw1"}

EmptyJson == [k \in Keys |-> Null]

\* what the environment presents to the inputs
\*   am   : AM2322 "ok", "error" (read() fails) or "absent" (not on the bus)
\*   hum, temp, ds : readings in hundredths;  pin : level of the switch pins
\*   pir  : level of the PIR input;  lux : analogRead
NominalEnv == [am |-> "ok", hum |-> 4500, temp |-> 2150, ds |-> 2150,
               pin |-> <<1, 1, 1, 1>>, pir |-> 0, lux |-> 300]

InitialEnvs(v) ==
  {NominalEnv}
  \cup (IF HasAM2322(v)
        THEN {[NominalEnv EXCEPT !.am = "error"], [NominalEnv EXCEPT !.am = "absent"],
              [NominalEnv EXCEPT !.hum = 30]}
        ELSE {})
  \cup (IF SwitchCount(v) > 0 THEN {[NominalEnv EXCEPT !.pin[1] = 0]} ELSE {})

\* one change of the inputs
EnvChanges(v, e) ==
  (  {[e EXCEPT !.pin[i] = 1 - e.pin[i]] : i \in 1..SwitchCount(v)}
     \cup (IF HasAM2322(v)
           THEN {[e EXCEPT !.am = a] : a \in {"ok", "error", "absent"}}
                \cup {[e EXCEPT !.hum = 6000]}
           ELSE {})
     \cup (IF HasDallas(v) THEN {[e EXCEPT !.ds = 2350]} ELSE {})
  ) \ {e}

\* if (X != value) { jsonBuffer[key] = value; dirty = true; }
SetIfDiffers(st, key, val, differs) ==
  IF differs THEN [jb |-> [st.jb EXCEPT ![key] = val], dirty |-> TRUE] ELSE st

\* the Dallas block of "httds"
PollDallas(v, st, e, count) ==
  IF v = "httds" /\ count > 0
  THEN SetIfDiffers(st, DallasKey, Round(e.ds), AsInt(st.jb[DallasKey]) # Round(e.ds))
  ELSE st

\* the AM2322 block of the two-timer sketches
PollAM2322(st, e) ==
  IF e.am = "absent" THEN st
  ELSE LET h == IF e.am = "ok" THEN Round(e.hum) ELSE SENSOR_UNDEFINED_VALUE
           t == IF e.am = "ok" THEN Round(e.temp) ELSE SENSOR_UNDEFINED_VALUE
           s1 == SetIfDiffers(st, "humidity", h, AsInt(st.jb["humidity"]) # h)
       IN  SetIfDiffers(s1, "temperature", t, AsInt(s1.jb["temperature"]) # t)

\* switch i of a two-timer sketch is polled: "mhtt" has no strlen() test
SwitchPolled(v, cfg, i) == v = "mhtt" \/ cfg.sw[i] # ""

\* the switch blocks, in program order, from switch i on
RECURSIVE PollSwitches(_, _, _, _, _, _)
PollSwitches(v, cfg, st, e, legacy, i) ==
  IF i > SwitchCount(v) THEN st
  ELSE LET s1 == IF SwitchPolled(v, cfg, i)
                 THEN SetIfDiffers(st, cfg.sw[i], e.pin[i],
                                   VariantDiffers(st.jb[cfg.sw[i]], e.pin[i], legacy))
                 ELSE st
       IN  PollSwitches(v, cfg, s1, e, legacy, i + 1)

\* the whole poll of a two-timer sketch: the new document and the dirty flag
PollAll(v, cfg, jb, e, legacy, count) ==
  LET s0 == [jb |-> jb, dirty |-> FALSE]
      s1 == PollDallas(v, s0, e, count)
      s2 == PollAM2322(s1, e)
  IN  PollSwitches(v, cfg, s2, e, legacy, 1)

\* serializeJson: the members that were set
Serialize(jb) == [k \in {x \in Keys : jb[x] # Null} |-> jb[k]]

\* DETECTED_LUX of "mmotion": analogRead * 2.7, clamped to 1023
ScaledLux(raw) == LET x == (raw * 27) \div 10 IN IF x > 1023 THEN 1023 ELSE x

\* the message of the sprintf sketches ("%f" values are in hundredths)
FixedMessage(v, e) ==
  CASE v \in {"wemos", "v10", "motion"} ->
         [temperature |-> e.ds, motion |-> e.pir, lux |-> e.lux]
    [] v = "mmotion" ->
         [temperature |-> e.ds, motion |-> e.pir, lux |-> ScaledLux(e.lux),
          sw0 |-> e.pin[1], sw1 |-> e.pin[2], sw2 |-> e.pin[3], sw3 |-> e.pin[4]]
    [] v = "tilt" ->
         [humidity |-> IF e.am = "ok" THEN e.hum ELSE TEMPERATURE_ERROR_VALUE,
          temperature |-> IF e.am = "ok" THEN e.temp ELSE TEMPERATURE_ERROR_VALUE,
          tilt |-> e.pin[1]]

-----------------------------------------------------------------------------
(* Initial states                                                          *)

\* an EEPROM that was never written
ErasedBody == [servername |-> "<ff>", sw |-> <<"<ff>", "<ff>", "<ff>", "<ff>">>,
               soft |-> 0 - 1, hard |-> 0 - 1]

NoPublish == [at |-> 0 - 1, now |-> 0 - 1, payload |-> << >>, ok |-> FALSE,
              env |-> << >>, dirty |-> FALSE, unchanged |-> FALSE, linkHeld |-> FALSE]

NoLoad == [done |-> FALSE, token |-> 0, body |-> ZeroConfig, before |-> ZeroConfig,
           reported |-> "none"]

\* observations, all reset by a boot except `boots'
FreshHist(boots) ==
  [boots |-> boots,
   absentAtBoot |-> FALSE,   \* the marker was unset when this boot loaded
   portal |-> FALSE,         \* the captive portal ran in this boot
   timedOut |-> FALSE,       \* the portal session ended by its timeout
   submitted |-> FALSE,      \* the operator submitted the form
   unedited |-> FALSE,       \* ... as the portal presented it
   saved |-> FALSE,          \* saveConfig ran
   storeAtBoot |-> << >>,    \* EEPROM token and struct as this boot found them
   attempts |-> 0,           \* mqttClient.connect calls
   sensorsBegun |-> FALSE,   \* setup() initialised the sensors
   lastPub |-> NoPublish,    \* the last mqttClient.publish call
   prevPubAt |-> 0 - 1,      \* time of the publish before it
   unchanged |-> TRUE,       \* no input changed since the last publish
   linkHeld |-> TRUE,        \* the broker connection held since then
   changes |-> 0, outages |-> 0, edges |-> 0,
   changeAt |-> 0 - 1,       \* time of the last change of a polled switch
   pending |-> FALSE,        \* ... which no publish has carried yet
   changeLinked |-> FALSE,   \* ... made while the broker connection was up
   edge |-> FALSE,           \* PIR rose between two passes of loop()
   missedEdge |-> FALSE,     \* ... and the next pass did not publish
   early |-> FALSE,          \* that pass began before the deadline
   rose |-> FALSE,           \* the handler ran on a rising edge since the last publish
   load |-> NoLoad,          \* the last loadConfig call
   saves |-> 0,              \* saveConfig calls that ran to their end
   savedCfg |-> ZeroConfig,  \* the struct the last of them was given
   justSaved |-> FALSE,      \* ... and storage was not touched since
   roundTrip |-> FALSE,      \* the last loadConfig followed such a save
   crashed |-> FALSE,        \* power was lost inside saveConfig
   failures |-> 0,           \* mqttClient.connect calls that failed
   outageAt |-> 0 - 1,       \* when the connection was last lost
   failedPub |-> FALSE,      \* the last publish failed, no poll pass since
   retryMissed |-> FALSE,    \* ... and that poll pass published nothing
   pollAt |-> 0 - 1,         \* when the poll block last ran
   clientId |-> "",          \* the client id of the last mqttClient.connect
   events |-> << >>]         \* what the current pass of loop() has done, in order

\* the EEPROM library outside begin() .. end(): no RAM copy
NoBuffer == [open |-> FALSE, token |-> 0, body |-> ZeroConfig]

\* RAM after reset
\* sprintf "%02x" and "%02X" of one byte
HexLower == <<"0", "1", "2", "3", "4", "5", "6", "7", "8", "9", "a", "b", "c", "d", "e", "f">>

HexUpper == <<"0", "1", "2", "3", "4", "5", "6", "7", "8", "9", "A", "B", "C", "D", "E", "F">>

Hex2(b, digits) == digits[(b \div 16) + 1] \o digits[(b % 16) + 1]

\* the six "%02x" of the formats, no separators
MacString(mac, digits) ==
  Hex2(mac[1], digits) \o Hex2(mac[2], digits) \o Hex2(mac[3], digits)
    \o Hex2(mac[4], digits) \o Hex2(mac[5], digits) \o Hex2(mac[6], digits)

WIFI_ACCESS_POINT_NAME_PREFIX == "MULTISENSOR-"

\* moduleId (MODULE_ID_FORMAT); macAddressString in "v10" and "motion"; the
\* hex part of mqttStatusTopic in "wemos"
ModuleId(v, mac) ==
  IF v \in {"wemos", "v10", "motion"} THEN MacString(mac, HexLower)
  ELSE WIFI_ACCESS_POINT_NAME_PREFIX \o MacString(mac, HexLower)

\* the argument of wifiManager.autoConnect
AccessPointName(v, mac) ==
  CASE v = "wemos" -> WIFI_ACCESS_POINT_NAME_PREFIX \o "-" \o MacString(mac, HexUpper)
    [] v \in {"v10", "motion"} -> WIFI_ACCESS_POINT_NAME_PREFIX \o MacString(mac, HexLower)
    [] OTHER -> ModuleId(v, mac)

\* the first argument of mqttClient.connect
ClientId(v, cfg, id) ==
  IF v \in {"wemos", "v10", "motion"} THEN cfg.servername ELSE id

\* station addresses: an Espressif one, and one whose digits are all decimal
EspressifMac == <<92, 207, 127, 10, 27, 44>>

Macs == {EspressifMac, <<0, 1, 2, 3, 4, 5>>}

RamImage ==
  [pc |-> "boot", mqttConfig |-> ZeroConfig, params |-> ZeroConfig,
   shouldSaveConfig |-> FALSE, res |-> FALSE, connected |-> FALSE, now |-> 0,
   soft |-> 0, hard |-> 0, jsonBuffer |-> EmptyJson, latch |-> FALSE, motion |-> 0,
   count |-> 0, clock |-> 0, moduleId |-> "", wifiAccessPointName |-> ""]

RamReset ==
  /\ pc = RamImage.pc
  /\ mqttConfig = RamImage.mqttConfig
  /\ params = RamImage.params
  /\ shouldSaveConfig = RamImage.shouldSaveConfig
  /\ res = RamImage.res
  /\ connected = RamImage.connected
  /\ now = RamImage.now
  /\ mqttPublishSoftDeadline = RamImage.soft
  /\ mqttPublishHardDeadline = RamImage.hard
  /\ jsonBuffer = RamImage.jsonBuffer
  /\ MOTION_DETECTED = RamImage.latch
  /\ DETECTED_MOTION = RamImage.motion
  /\ dallasDeviceCount = RamImage.count
  /\ clock = RamImage.clock
  /\ moduleId = RamImage.moduleId
  /\ wifiAccessPointName = RamImage.wifiAccessPointName

\* the sensors at power-on: all present, or the AM2322 missing
BootEnvs(v) ==
  {NominalEnv} \cup (IF HasAM2322(v) THEN {[NominalEnv EXCEPT !.am = "absent"]} ELSE {})

\* power-on with any EEPROM content
InitBoot ==
  /\ variant \in Variants
  /\ \/ eepromToken = ERASED_BYTE /\ eepromBody = ErasedBody
     \/ eepromToken = STORAGE_TEST_VALUE /\ eepromBody \in StoredConfigs(variant)
  /\ wifiSaved \in BOOLEAN
  /\ RamReset
  /\ nullIsZero = FALSE
  /\ brokerUp = TRUE
  /\ env \in BootEnvs(variant)
  /\ macAddress \in Macs
  /\ eepromBuffer = NoBuffer
  /\ epoch = 0
  /\ hist = FreshHist(1)

-----------------------------------------------------------------------------
(* setup()                                                                 *)

\* time setup() spends before autoConnect
SetupMs(v) ==
  CASE v = "wemos" -> WEMOS_SERIAL_START_DELAY
    [] v = "v10" -> BootMs
    [] OTHER -> DEBUG_SERIAL_START_DELAY

\* setup() up to wifiManager.autoConnect
SetupLoad ==
  /\ pc = "boot"
  /\ LET l == loadConfig(variant, eepromToken, eepromBody, mqttConfig)
     IN  /\ mqttConfig' = l.config
         /\ params' = InitialParams(variant, l.loaded, l.config)
         /\ wifiSaved' = IF ~l.loaded /\ ResetsOnAbsent(variant) THEN FALSE ELSE wifiSaved
         /\ hist' = [hist EXCEPT !.absentAtBoot = ~l.loaded,
                                 !.storeAtBoot = <<eepromToken, eepromBody>>]
  /\ moduleId' = ModuleId(variant, macAddress)
  /\ wifiAccessPointName' = AccessPointName(variant, macAddress)
  /\ clock' = clock + SetupMs(variant)
  /\ pc' = "manager"
  /\ UNCHANGED << variant, macAddress,
                  eepromBuffer, epoch, eepromToken, eepromBody, shouldSaveConfig, res, connected,
                  now, mqttPublishSoftDeadline, mqttPublishHardDeadline, jsonBuffer,
                  MOTION_DETECTED, DETECTED_MOTION, dallasDeviceCount, nullIsZero,
                  brokerUp, env >>

\* autoConnect joins the stored network: no portal, no callback
AutoConnectJoin ==
  /\ pc = "manager"
  /\ wifiSaved
  /\ res' = TRUE
  /\ pc' = "finish"
  /\ UNCHANGED << variant, macAddress, moduleId, wifiAccessPointName,
                  eepromBuffer, epoch, eepromToken, eepromBody, wifiSaved, mqttConfig,
                  shouldSaveConfig, connected, now, mqttPublishSoftDeadline,
                  mqttPublishHardDeadline, jsonBuffer, MOTION_DETECTED, DETECTED_MOTION,
                  clock, params, dallasDeviceCount, nullIsZero, brokerUp, env, hist >>

\* saveConfigCallback
saveConfigCallback == TRUE

\* the portal runs (no stored network, or it cannot be joined) and the
\* operator submits form f; the network is joined or not
AutoConnectSubmit ==
  /\ pc = "manager"
  /\ \E f \in Forms(variant, params), joined \in BOOLEAN :
       /\ joined \/ BreakAfterConfig(variant)
       /\ params' = f
       /\ shouldSaveConfig' = saveConfigCallback
       /\ res' = joined
  /\ wifiSaved' = TRUE
  /\ hist' = [hist EXCEPT !.portal = TRUE, !.submitted = TRUE,
                           !.unedited = (params' = params)]
  /\ pc' = "finish"
  /\ UNCHANGED << variant, macAddress, moduleId, wifiAccessPointName,
                  eepromBuffer, epoch, eepromToken, eepromBody, mqttConfig, connected, now,
                  mqttPublishSoftDeadline, mqttPublishHardDeadline, jsonBuffer,
                  MOTION_DETECTED, DETECTED_MOTION, clock, dallasDeviceCount,
                  nullIsZero, brokerUp, env >>

\* an autoConnect that returns false as soon as the join fails, no portal
AutoConnectFailsFast ==
  /\ pc = "manager"
  /\ PortalTimeout(variant)
  /\ res' = FALSE
  /\ pc' = "finish"
  /\ UNCHANGED << variant, macAddress, moduleId, wifiAccessPointName,
                  eepromBuffer, epoch, eepromToken, eepromBody, wifiSaved, mqttConfig,
                  shouldSaveConfig, connected, now, mqttPublishSoftDeadline,
                  mqttPublishHardDeadline, jsonBuffer, MOTION_DETECTED, DETECTED_MOTION,
                  clock, params, dallasDeviceCount, nullIsZero, brokerUp, env, hist >>

\* the portal runs and its timeout ends the session with nothing submitted
AutoConnectTimeout ==
  /\ pc = "manager"
  /\ PortalTimeout(variant)
  /\ res' = FALSE
  /\ hist' = [hist EXCEPT !.portal = TRUE, !.timedOut = TRUE]
  /\ pc' = "finish"
  /\ UNCHANGED << variant, macAddress, moduleId, wifiAccessPointName,
                  eepromBuffer, epoch, eepromToken, eepromBody, wifiSaved, mqttConfig,
                  shouldSaveConfig, connected, now, mqttPublishSoftDeadline,
                  mqttPublishHardDeadline, jsonBuffer, MOTION_DETECTED, DETECTED_MOTION,
                  clock, params, dallasDeviceCount, nullIsZero, brokerUp, env >>

\* "tilt": while (1) when AM2322.begin() fails
HaltsOnSensor(v, e) == v = "tilt" /\ e.am = "absent"

\* setup() after autoConnect returned: save if due, then restart or go on
SetupFinish ==
  /\ pc = "finish"
  /\ LET due == SaveIsDue(variant, shouldSaveConfig, res)
         cfg == IF due THEN MergeForm(variant, mqttConfig, params) ELSE mqttConfig
         rom == IF due THEN saveConfig(cfg)
                ELSE [token |-> eepromToken, body |-> eepromBody]
         op  == GoesOperational(res)
     IN  /\ mqttConfig' = cfg
         /\ eepromToken' = rom.token
         /\ eepromBody' = rom.body
         /\ pc' = IF ~op THEN "restart"
                  ELSE IF HaltsOnSensor(variant, env) THEN "halt" ELSE "loop"
         /\ dallasDeviceCount' = IF op /\ variant = "httds" THEN 1 ELSE dallasDeviceCount
         /\ hist' = [hist EXCEPT !.saved = due, !.sensorsBegun = op]
  /\ UNCHANGED << variant, macAddress, moduleId, wifiAccessPointName,
                  eepromBuffer, epoch, wifiSaved, shouldSaveConfig, res, connected, now,
                  mqttPublishSoftDeadline, mqttPublishHardDeadline, jsonBuffer,
                  MOTION_DETECTED, DETECTED_MOTION, clock, params, nullIsZero,
                  brokerUp, env >>

\* ESP.restart(): RAM is lost, EEPROM and the WiFi credentials stay
Restart ==
  /\ pc = "restart"
  /\ hist.boots < MaxBoots
  /\ pc' = RamImage.pc
  /\ moduleId' = RamImage.moduleId
  /\ wifiAccessPointName' = RamImage.wifiAccessPointName
  /\ mqttConfig' = RamImage.mqttConfig
  /\ params' = RamImage.params
  /\ shouldSaveConfig' = RamImage.shouldSaveConfig
  /\ res' = RamImage.res
  /\ connected' = RamImage.connected
  /\ now' = RamImage.now
  /\ mqttPublishSoftDeadline' = RamImage.soft
  /\ mqttPublishHardDeadline' = RamImage.hard
  /\ jsonBuffer' = RamImage.jsonBuffer
  /\ MOTION_DETECTED' = RamImage.latch
  /\ DETECTED_MOTION' = RamImage.motion
  /\ dallasDeviceCount' = RamImage.count
  /\ clock' = RamImage.clock
  /\ hist' = FreshHist(hist.boots + 1)
  /\ UNCHANGED << variant, macAddress,
                  eepromBuffer, epoch, eepromToken, eepromBody, wifiSaved, nullIsZero, brokerUp, env >>

-----------------------------------------------------------------------------
(* loop()                                                                  *)

Operational == {"loop", "connecting", "tick"}

\* a poll test that waits one interval after power-on as well
PollsLate(v, n, deadline, latch, motion) ==
  CASE v = "motion" -> latch \/ n > deadline + MQTT_PUBLISH_SOFT_INTERVAL
    [] v = "mmotion" -> motion # 0 \/ n > deadline + MQTT_PUBLISH_SOFT_INTERVAL
    [] OTHER -> n > deadline + MQTT_PUBLISH_SOFT_INTERVAL

\* a poll test that is open at the deadline itself
PollsAtDeadline(v, n, deadline, latch, motion) ==
  CASE v = "motion" -> latch \/ n >= deadline
    [] v = "mmotion" -> motion # 0 \/ n >= deadline
    [] OTHER -> n >= deadline

\* the test that opens the poll block
Polls(v, n, deadline, latch, motion) ==
  CASE v = "motion" -> latch \/ n > deadline
    [] v = "mmotion" -> motion # 0 \/ n > deadline
    [] OTHER -> n > deadline

\* a publish test that is open at the hard deadline itself
PublishesAtDeadline(v, dirty, n, hard) ==
  TwoTimer(v) => (dirty \/ n >= hard)

\* the test that opens the publish block, inside the poll block
Publishes(v, dirty, n, hard) ==
  TwoTimer(v) => (dirty \/ n > hard)

\* the soft deadline (the only one of the single-interval sketches) after a poll
SoftDeadlineAfter(v, cfg, n) ==
  CASE v = "mhtt" -> AddLong(n, cfg.hard)
    [] v \in {"htt", "httds"} -> AddLong(n, MQTT_PUBLISH_SOFT_INTERVAL)
    [] OTHER -> AddLong(n, MQTT_PUBLISH_INTERVAL)

\* the hard deadline after a publish
HardDeadlineAfter(v, cfg, n) ==
  IF v = "mhtt" THEN AddLong(n, cfg.soft) ELSE AddLong(n, MQTT_PUBLISH_HARD_INTERVAL)

\* DETECTED_MOTION after the poll block
MotionAfterPoll(v, e, motion) ==
  CASE v \in {"wemos", "v10"} -> 0
    [] v \in {"motion", "mmotion"} -> e.pir
    [] OTHER -> motion

\* a loop() that services the connection after the poll block
PassEventsKeepaliveLast(polls, pub) ==
  (IF polls THEN <<"poll">> ELSE << >>) \o (IF pub THEN <<"publish">> ELSE << >>)
    \o <<"mqttClient.loop">>

\* what loop() does after the connection test, in program order
PassEvents(polls, pub) ==
  <<"mqttClient.loop">>
    \o (IF polls THEN <<"poll">> ELSE << >>) \o (IF pub THEN <<"publish">> ELSE << >>)

\* long now = millis(); if (!mqttClient.connected()) connect_to_mqtt(...)
LoopBegin ==
  /\ pc = "loop"
  /\ clock <= MaxClock
  /\ now' = AddLong(epoch, clock)
  /\ pc' = IF connected THEN "tick" ELSE "connecting"
  /\ hist' = [hist EXCEPT !.linkHeld = hist.linkHeld /\ connected,
                           !.events = <<"connected?">>]
  /\ UNCHANGED << variant, macAddress, moduleId, wifiAccessPointName,
                  eepromBuffer, epoch, eepromToken, eepromBody, wifiSaved, mqttConfig,
                  shouldSaveConfig, res, connected, mqttPublishSoftDeadline,
                  mqttPublishHardDeadline, jsonBuffer, MOTION_DETECTED, DETECTED_MOTION,
                  clock, params, dallasDeviceCount, nullIsZero, brokerUp, env >>

\* a connect_to_mqtt that gave up after a failed attempt
ConnectFailGivesUp ==
  /\ pc = "connecting"
  /\ ~brokerUp
  /\ clock <= MaxClock
  /\ clock' = clock + MQTT_RETRY_DELAY
  /\ pc' = "tick"
  /\ hist' = [hist EXCEPT !.clientId = ClientId(variant, mqttConfig, moduleId),
                           !.attempts = @ + 1, !.failures = @ + 1]
  /\ UNCHANGED << variant, macAddress, moduleId, wifiAccessPointName,
                  eepromBuffer, epoch, eepromToken, eepromBody, wifiSaved, mqttConfig,
                  shouldSaveConfig, res, connected, now, mqttPublishSoftDeadline,
                  mqttPublishHardDeadline, jsonBuffer, MOTION_DETECTED, DETECTED_MOTION,
                  params, dallasDeviceCount, nullIsZero, brokerUp, env >>

\* connect_to_mqtt: mqttClient.connect fails, delay(5000), try again
ConnectFail ==
  /\ pc = "connecting"
  /\ ~brokerUp
  /\ clock <= MaxClock
  /\ clock' = clock + MQTT_RETRY_DELAY
  /\ hist' = [hist EXCEPT !.clientId = ClientId(variant, mqttConfig, moduleId),
                           !.attempts = @ + 1, !.failures = @ + 1]
  /\ UNCHANGED << variant, macAddress, moduleId, wifiAccessPointName,
                  eepromBuffer, epoch, eepromToken, eepromBody, wifiSaved, pc, mqttConfig,
                  shouldSaveConfig, res, connected, now, mqttPublishSoftDeadline,
                  mqttPublishHardDeadline, jsonBuffer, MOTION_DETECTED, DETECTED_MOTION,
                  params, dallasDeviceCount, nullIsZero, brokerUp, env >>

\* a connect that reports success and leaves no connection
ConnectOKUnlinked ==
  /\ pc = "connecting"
  /\ brokerUp
  /\ connected' = connected
  /\ pc' = "tick"
  /\ hist' = [hist EXCEPT !.clientId = ClientId(variant, mqttConfig, moduleId),
                           !.attempts = @ + 1]
  /\ UNCHANGED << variant, macAddress, moduleId, wifiAccessPointName,
                  eepromBuffer, epoch, eepromToken, eepromBody, wifiSaved, mqttConfig,
                  shouldSaveConfig, res, now, mqttPublishSoftDeadline,
                  mqttPublishHardDeadline, jsonBuffer, MOTION_DETECTED, DETECTED_MOTION,
                  clock, params, dallasDeviceCount, nullIsZero, brokerUp, env >>

\* connect_to_mqtt: mqttClient.connect succeeds and the while loop ends
ConnectOK ==
  /\ pc = "connecting"
  /\ brokerUp
  /\ connected' = TRUE
  /\ pc' = "tick"
  /\ hist' = [hist EXCEPT !.clientId = ClientId(variant, mqttConfig, moduleId),
                           !.attempts = @ + 1]
  /\ UNCHANGED << variant, macAddress, moduleId, wifiAccessPointName,
                  eepromBuffer, epoch, eepromToken, eepromBody, wifiSaved, mqttConfig,
                  shouldSaveConfig, res, now, mqttPublishSoftDeadline,
                  mqttPublishHardDeadline, jsonBuffer, MOTION_DETECTED, DETECTED_MOTION,
                  clock, params, dallasDeviceCount, nullIsZero, brokerUp, env >>

\* the rest of loop(): mqttClient.loop(), then poll and publish if due
Tick ==
  /\ pc = "tick"
  /\ LET v     == variant
         polls == Polls(v, now, mqttPublishSoftDeadline, MOTION_DETECTED, DETECTED_MOTION)
         st    == IF TwoTimer(v)
                  THEN PollAll(v, mqttConfig, jsonBuffer, env, nullIsZero, dallasDeviceCount)
                  ELSE [jb |-> jsonBuffer, dirty |-> FALSE]
         pub   == polls /\ Publishes(v, st.dirty, now, mqttPublishHardDeadline)
         msg   == IF TwoTimer(v) THEN Serialize(st.jb) ELSE FixedMessage(v, env)
     IN  /\ jsonBuffer' = IF polls THEN st.jb ELSE jsonBuffer
         /\ mqttPublishSoftDeadline' =
              IF polls THEN SoftDeadlineAfter(v, mqttConfig, now) ELSE mqttPublishSoftDeadline
         /\ mqttPublishHardDeadline' =
              IF pub /\ TwoTimer(v) THEN HardDeadlineAfter(v, mqttConfig, now)
              ELSE mqttPublishHardDeadline
         /\ MOTION_DETECTED' = IF polls /\ v = "motion" THEN FALSE ELSE MOTION_DETECTED
         /\ DETECTED_MOTION' = IF polls THEN MotionAfterPoll(v, env, DETECTED_MOTION)
                               ELSE DETECTED_MOTION
         /\ hist' =
              LET h1 == [hist EXCEPT !.edge = FALSE,
                                     !.events = hist.events \o PassEvents(polls, pub),
                                     !.pollAt = IF polls THEN clock ELSE hist.pollAt,
                                     !.failedPub = IF pub THEN ~connected
                                                   ELSE hist.failedPub /\ ~polls,
                                     !.retryMissed = hist.failedPub /\ polls /\ ~pub,
                                     !.missedEdge = hist.edge /\ ~pub,
                                     !.early = hist.edge /\ now <= mqttPublishSoftDeadline]
              IN  IF pub
                  THEN [h1 EXCEPT
                          !.lastPub = [at |-> clock, now |-> now, payload |-> msg,
                                       ok |-> connected, env |-> env, dirty |-> st.dirty,
                                       unchanged |-> hist.unchanged,
                                       linkHeld |-> hist.linkHeld /\ connected],
                          !.prevPubAt = hist.lastPub.at,
                          !.unchanged = TRUE,
                          !.linkHeld = connected,
                          !.pending = hist.pending /\ ~connected]
                  ELSE h1
  /\ clock' = clock + LoopMs
  /\ pc' = "loop"
  /\ UNCHANGED << variant, macAddress, moduleId, wifiAccessPointName,
                  eepromBuffer, epoch, eepromToken, eepromBody, wifiSaved, mqttConfig,
                  shouldSaveConfig, res, connected, now, params, dallasDeviceCount,
                  nullIsZero, brokerUp, env >>

-----------------------------------------------------------------------------
(* The environment of a running device                                     *)

\* the switch whose pin differs between e1 and e2 is one the sketch reports
ReportedPinChange(v, cfg, e1, e2) ==
  \E i \in 1..SwitchCount(v) :
    /\ e1.pin[i] # e2.pin[i]
    /\ (TwoTimer(v) => cfg.sw[i] # "")

\* an input other than the PIR changes
SensorChange ==
  /\ pc = "loop"
  /\ clock <= MaxEventAt
  /\ hist.changes < MaxChanges
  /\ \E e2 \in EnvChanges(variant, env) :
       /\ env' = e2
       /\ hist' = [hist EXCEPT
                     !.changes = @ + 1,
                     !.unchanged = FALSE,
                     !.pending = @ \/ ReportedPinChange(variant, mqttConfig, env, e2),
                     !.changeAt = IF ReportedPinChange(variant, mqttConfig, env, e2)
                                  THEN clock ELSE @,
                     !.changeLinked = IF ReportedPinChange(variant, mqttConfig, env, e2)
                                      THEN connected ELSE @]
  /\ UNCHANGED << variant, macAddress, moduleId, wifiAccessPointName,
                  eepromBuffer, epoch, eepromToken, eepromBody, wifiSaved, pc, mqttConfig,
                  shouldSaveConfig, res, connected, now, mqttPublishSoftDeadline,
                  mqttPublishHardDeadline, jsonBuffer, MOTION_DETECTED, DETECTED_MOTION,
                  clock, params, dallasDeviceCount, nullIsZero, brokerUp >>

\* motionDetectionHandler, attached on RISING ("wemos", "v10") or CHANGE ("motion")
motionDetectionHandler(v, level, latch, motion) ==
  CASE v \in {"wemos", "v10"} ->
         [latch |-> latch, motion |-> IF level = 1 THEN 1 ELSE motion]
    [] v = "motion" -> [latch |-> TRUE, motion |-> motion]
    [] OTHER -> [latch |-> latch, motion |-> motion]

\* the PIR level changes; the interrupt, where one is attached, runs at once
MotionEdge ==
  /\ pc = "loop"
  /\ clock <= MaxEventAt
  /\ HasPIR(variant)
  /\ hist.edges < MaxEdges
  /\ LET level == 1 - env.pir
         isr   == motionDetectionHandler(variant, level, MOTION_DETECTED, DETECTED_MOTION)
     IN  /\ env' = [env EXCEPT !.pir = level]
         /\ MOTION_DETECTED' = isr.latch
         /\ DETECTED_MOTION' = isr.motion
         /\ hist' = [hist EXCEPT !.edges = @ + 1,
                                 !.unchanged = FALSE,
                                 !.edge = @ \/ level = 1]
  /\ UNCHANGED << variant, macAddress, moduleId, wifiAccessPointName,
                  eepromBuffer, epoch, eepromToken, eepromBody, wifiSaved, pc, mqttConfig,
                  shouldSaveConfig, res, connected, now, mqttPublishSoftDeadline,
                  mqttPublishHardDeadline, jsonBuffer, clock, params, dallasDeviceCount,
                  nullIsZero, brokerUp >>

\* the broker goes away: the client's connection is gone with it
BrokerDown ==
  /\ pc = "loop"
  /\ clock <= MaxEventAt
  /\ brokerUp
  /\ hist.outages < MaxOutages
  /\ brokerUp' = FALSE
  /\ connected' = FALSE
  /\ hist' = [hist EXCEPT !.outages = @ + 1, !.linkHeld = FALSE, !.outageAt = clock]
  /\ UNCHANGED << variant, macAddress, moduleId, wifiAccessPointName,
                  eepromBuffer, epoch, eepromToken, eepromBody, wifiSaved, pc, mqttConfig,
                  shouldSaveConfig, res, now, mqttPublishSoftDeadline,
                  mqttPublishHardDeadline, jsonBuffer, MOTION_DETECTED, DETECTED_MOTION,
                  clock, params, dallasDeviceCount, nullIsZero, env >>

\* the broker accepts connections again
BrokerUp ==
  /\ pc = "connecting"
  /\ ~brokerUp
  /\ brokerUp' = TRUE
  /\ UNCHANGED << variant, macAddress, moduleId, wifiAccessPointName,
                  eepromBuffer, epoch, eepromToken, eepromBody, wifiSaved, pc, mqttConfig,
                  shouldSaveConfig, res, connected, now, mqttPublishSoftDeadline,
                  mqttPublishHardDeadline, jsonBuffer, MOTION_DETECTED, DETECTED_MOTION,
                  clock, params, dallasDeviceCount, nullIsZero, env, hist >>

-----------------------------------------------------------------------------
(* Specifications                                                          *)

\* the life cycle from power-on, with steady inputs and a reachable broker
NextBoot ==
  \/ SetupLoad
  \/ AutoConnectJoin
  \/ AutoConnectSubmit
  \/ AutoConnectTimeout
  \/ SetupFinish
  \/ Restart
  \/ LoopBegin
  \/ ConnectOK
  \/ Tick

SpecBoot == InitBoot /\ [][NextBoot]_vars

\* a configured device as setup() leaves it, network joined
InitLoop ==
  /\ variant \in Variants
  /\ eepromToken = STORAGE_TEST_VALUE
  /\ eepromBody \in StoredConfigs(variant)
  /\ wifiSaved = TRUE
  /\ pc = "loop"
  /\ mqttConfig = eepromBody
  /\ params = InitialParams(variant, TRUE, eepromBody)
  /\ shouldSaveConfig = FALSE
  /\ res = TRUE
  /\ connected = FALSE
  /\ now = 0
  /\ mqttPublishSoftDeadline = 0
  /\ mqttPublishHardDeadline = 0
  /\ jsonBuffer = EmptyJson
  /\ MOTION_DETECTED = FALSE
  /\ DETECTED_MOTION = 0
  /\ dallasDeviceCount = IF variant = "httds" THEN 1 ELSE 0
  /\ clock = SetupMs(variant)
  /\ nullIsZero \in (IF TwoTimer(variant) THEN BOOLEAN ELSE {FALSE})
  /\ brokerUp \in BOOLEAN
  /\ env \in {e \in InitialEnvs(variant) : ~HaltsOnSensor(variant, e)}
  /\ macAddress = EspressifMac
  /\ moduleId = ModuleId(variant, macAddress)
  /\ wifiAccessPointName = AccessPointName(variant, macAddress)
  /\ eepromBuffer = NoBuffer
  /\ epoch = 0
  /\ hist = [FreshHist(1) EXCEPT !.sensorsBegun = TRUE,
                                !.storeAtBoot = <<eepromToken, eepromBody>>]

\* the running device and its environment
Next ==
  \/ LoopBegin
  \/ ConnectFail
  \/ ConnectOK
  \/ Tick
  \/ SensorChange
  \/ MotionEdge
  \/ BrokerDown
  \/ BrokerUp

Spec == InitLoop /\ [][Next]_vars

-----------------------------------------------------------------------------
(* Properties                                                              *)

\* the publish intervals in force
SoftInterval(v, cfg) ==
  CASE v = "mhtt" -> cfg.soft
    [] v \in {"htt", "httds"} -> MQTT_PUBLISH_SOFT_INTERVAL
    [] OTHER -> MQTT_PUBLISH_INTERVAL

HardInterval(v, cfg) ==
  IF v = "mhtt" THEN cfg.hard ELSE MQTT_PUBLISH_HARD_INTERVAL

\* the keys every message of the sketch must carry
MandatoryKeys(v) ==
  CASE v \in {"wemos", "v10", "motion"} -> {"temperature", "motion", "lux"}
    [] v = "mmotion" -> {"temperature", "motion", "lux", "sw0", "sw1", "sw2", "sw3"}
    [] v = "tilt" -> {"humidity", "temperature", "tilt"}
    [] v = "httds" -> {"humidity", "temperature", DallasKey}
    [] OTHER -> {"humidity", "temperature"}

\* the aliases of the enabled switch channels
EnabledAliases(v, cfg) ==
  IF HasAliases(v) THEN {cfg.sw[i] : i \in 1..SwitchCount(v)} \ {""} ELSE {}

\* the "undefined" value in the unit of the sketch's message
Sentinel(v) ==
  IF TwoTimer(v) THEN SENSOR_UNDEFINED_VALUE ELSE SENSOR_UNDEFINED_VALUE * 100

Published == hist.lastPub.at >= 0

PublishedTwice == hist.prevPubAt >= 0

SteadyInputs == hist.changes = 0 /\ hist.edges = 0

StoreChanged == pc # "boot" /\ <<eepromToken, eepromBody>> # hist.storeAtBoot

SetupDone == pc \in Operational \cup {"restart", "halt"}

\* C1: in the two-timer sketches, with the broker connected throughout and
\* steady inputs, two successive publishes are never more than the hard
\* interval apart.
C1_Heartbeat ==
  (TwoTimer(variant) /\ PublishedTwice /\ SteadyInputs /\ hist.lastPub.linkHeld)
    => hist.lastPub.at - hist.prevPubAt <= HardInterval(variant, mqttConfig)

\* C2: with steady inputs, two publishes are never less than the soft interval
\* apart in clock time, the time spent in connect_to_mqtt included.
C2_RateLimit ==
  (PublishedTwice /\ SteadyInputs)
    => hist.lastPub.at - hist.prevPubAt >= SoftInterval(variant, mqttConfig)

\* C3: in the two-timer sketches a change of an enabled switch, made and kept
\* while the broker is connected, does not wait for a publish longer than one
\* soft interval (one pass of loop() is allowed on top).
C3_PromptPublish ==
  (TwoTimer(variant) /\ hist.pending /\ hist.changeLinked /\ hist.outages = 0)
    => clock - hist.changeAt <= SoftInterval(variant, mqttConfig) + LoopMs

\* C4: the empty alias of a disabled switch is never a key of a published
\* message.
C4_DisabledAbsent ==
  (HasAliases(variant) /\ Published
     /\ \E i \in 1..SwitchCount(variant) : mqttConfig.sw[i] = "")
    => "" \notin DOMAIN hist.lastPub.payload

\* C5: every message published while the sensors can be read has a key for
\* each mandatory sensor and each enabled switch, whatever they read.
C5_AllKeys ==
  (Published /\ (HasAM2322(variant) => hist.lastPub.env.am = "ok"))
    => (MandatoryKeys(variant) \cup EnabledAliases(variant, mqttConfig))
         \subseteq DOMAIN hist.lastPub.payload

\* C6: a message published while the AM2322 cannot be read carries exactly
\* 999 for humidity and for temperature.
C6_Sentinel ==
  (Published /\ HasAM2322(variant) /\ hist.lastPub.env.am # "ok")
    => /\ {"humidity", "temperature"} \subseteq DOMAIN hist.lastPub.payload
       /\ hist.lastPub.payload["humidity"] = Sentinel(variant)
       /\ hist.lastPub.payload["temperature"] = Sentinel(variant)

\* C7: in the trigger-driven sketches the pass of loop() that follows a rise
\* of the PIR input publishes.
C7_MotionTrigger ==
  TriggerDriven(variant) => ~hist.missedEdge

\* C8: a boot that found no valid configuration does not become operational
\* and does not call the broker unless the portal form was submitted.
C8_ProvisionFirst ==
  (hist.absentAtBoot /\ (pc \in Operational \/ hist.attempts > 0)) => hist.submitted

\* C9: after a portal timeout in a boot that found no configuration, setup()
\* restarts: no broker connection, no sensor set up, nothing published.
C9_TimeoutRestarts ==
  (hist.absentAtBoot /\ hist.timedOut)
    => /\ pc \in {"finish", "restart"}
       /\ hist.attempts = 0
       /\ ~hist.sensorsBegun
       /\ ~Published
       /\ ~connected

C9_Witness ==
  hist.absentAtBoot /\ hist.timedOut /\ pc = "restart" /\ hist.portal

\* C10 as stated: the EEPROM changes only in a boot that joined the network.
C10_SavedOnlyWhenJoined ==
  StoreChanged => res

\* C10: the EEPROM changes only in a boot whose portal form was submitted, and
\* in "wemos" and "v10" only if the network was joined as well; the other
\* sketches save a submitted form before they test the join, so their store
\* holds the merged form even when the boot ends in a restart.
C10_SavedWhenSubmitted ==
  /\ StoreChanged => (hist.submitted /\ (SavesOnlyWhenJoined(variant) => res))
  /\ (SetupDone /\ hist.submitted /\ (SavesOnlyWhenJoined(variant) => res))
       => /\ eepromToken = STORAGE_TEST_VALUE
          /\ eepromBody = MergeForm(variant, eepromBody, params)
  /\ (SetupDone /\ ~hist.submitted) => ~StoreChanged

C10_Witness ==
  pc = "restart" /\ hist.submitted /\ ~res /\ StoreChanged

\* C11: a record marked valid never has an empty broker host; a form with an
\* empty host is neither merged nor saved.
C11_ValidHasHost ==
  /\ eepromToken = STORAGE_TEST_VALUE => eepromBody.servername # ""
  /\ (SetupDone /\ hist.submitted /\ params.servername = "" /\ hist.absentAtBoot)
       => eepromToken # STORAGE_TEST_VALUE

-----------------------------------------------------------------------------
(* The configuration store, step by step                                   *)
(*                                                                         *)
(* saveConfig is EEPROM.begin, EEPROM.write(0, token), EEPROM.put(1, cfg), *)
(* EEPROM.commit, EEPROM.end.  On the ESP8266 begin() copies the flash     *)
(* sector to RAM, write() and put() change the copy, and commit() erases   *)
(* the sector and programs the copy back from the lowest address up.       *)
(* Power can be lost between any two steps.                                *)

\* loadConfig hands its caller a result ("wemos", "v10", "motion": void)
ReturnsLoadResult(v) == v \notin {"wemos", "v10", "motion"}

\* what the caller of loadConfig is told
LoadReport(v, loaded) ==
  IF ~ReturnsLoadResult(v) THEN "none" ELSE IF loaded THEN "valid" ELSE "absent"

\* a byte left at address 0 by something other than saveConfig
StrayByte == 0

StoreSaving == {"begun", "marked", "put", "erased", "programmed"}

StoreFrame ==
  UNCHANGED << variant, macAddress, moduleId, wifiAccessPointName,
               wifiSaved, shouldSaveConfig, res, connected, now,
               mqttPublishSoftDeadline, mqttPublishHardDeadline, jsonBuffer,
               MOTION_DETECTED, DETECTED_MOTION, clock, params, dallasDeviceCount,
               nullIsZero, brokerUp, env, epoch >>

\* a device at reset, its flash never written, written by saveConfig, or with
\* a marker byte that something else overwrote
InitStore ==
  /\ variant \in Variants
  /\ \/ eepromToken = ERASED_BYTE /\ eepromBody = ErasedBody
     \/ eepromToken \in {STORAGE_TEST_VALUE, StrayByte}
          /\ eepromBody \in StoredConfigs(variant)
  /\ wifiSaved = FALSE
  /\ RamReset
  /\ nullIsZero = FALSE
  /\ brokerUp = TRUE
  /\ env = NominalEnv
  /\ macAddress = EspressifMac
  /\ eepromBuffer = NoBuffer
  /\ epoch = 0
  /\ hist = FreshHist(1)

\* setup(): loadConfig(mqttConfig)
StoreLoad ==
  /\ pc = "boot"
  /\ LET l == loadConfig(variant, eepromToken, eepromBody, mqttConfig)
     IN  /\ mqttConfig' = l.config
         /\ hist' = [hist EXCEPT
                       !.load = [done |-> TRUE, token |-> eepromToken, body |-> eepromBody,
                                 before |-> mqttConfig,
                                 reported |-> LoadReport(variant, l.loaded)],
                       !.roundTrip = hist.justSaved]
  /\ pc' = "loaded"
  /\ UNCHANGED << eepromToken, eepromBody, eepromBuffer >>
  /\ StoreFrame

\* setup(): the portal values are copied into the struct
StoreMerge ==
  /\ pc = "loaded"
  /\ hist.saves < MaxSaves
  /\ \E f \in Forms(variant, CompiledParams(variant)) :
       mqttConfig' = MergeForm(variant, mqttConfig, f)
  /\ pc' = "merged"
  /\ UNCHANGED << eepromToken, eepromBody, eepromBuffer, hist >>
  /\ StoreFrame

\* saveConfig: EEPROM.begin(512)
SaveBegin ==
  /\ pc = "merged"
  /\ eepromBuffer' = [open |-> TRUE, token |-> eepromToken, body |-> eepromBody]
  /\ pc' = "begun"
  /\ UNCHANGED << eepromToken, eepromBody, mqttConfig, hist >>
  /\ StoreFrame

\* saveConfig: EEPROM.write(0, token)
SaveWrite ==
  /\ pc = "begun"
  /\ eepromBuffer' = [eepromBuffer EXCEPT !.token = saveConfig(mqttConfig).token]
  /\ pc' = "marked"
  /\ UNCHANGED << eepromToken, eepromBody, mqttConfig, hist >>
  /\ StoreFrame

\* saveConfig: EEPROM.put(1, config)
SavePut ==
  /\ pc = "marked"
  /\ eepromBuffer' = [eepromBuffer EXCEPT !.body = saveConfig(mqttConfig).body]
  /\ pc' = "put"
  /\ UNCHANGED << eepromToken, eepromBody, mqttConfig, hist >>
  /\ StoreFrame

\* EEPROM.commit: the sector is erased
CommitErase ==
  /\ pc = "put"
  /\ eepromToken' = ERASED_BYTE
  /\ eepromBody' = ErasedBody
  /\ pc' = "erased"
  /\ hist' = [hist EXCEPT !.justSaved = FALSE]
  /\ UNCHANGED << eepromBuffer, mqttConfig >>
  /\ StoreFrame

\* EEPROM.commit: byte 0 is programmed
CommitToken ==
  /\ pc = "erased"
  /\ eepromToken' = eepromBuffer.token
  /\ pc' = "programmed"
  /\ UNCHANGED << eepromBody, eepromBuffer, mqttConfig, hist >>
  /\ StoreFrame

\* EEPROM.commit: the bytes from 1 on are programmed; EEPROM.end()
CommitBody ==
  /\ pc = "programmed"
  /\ eepromBody' = eepromBuffer.body
  /\ eepromBuffer' = NoBuffer
  /\ pc' = "saved"
  /\ hist' = [hist EXCEPT !.saves = @ + 1, !.savedCfg = mqttConfig, !.justSaved = TRUE]
  /\ UNCHANGED << eepromToken, mqttConfig >>
  /\ StoreFrame

\* the device starts again: after ESP.restart(), or after power was lost
\* inside saveConfig.  RAM is gone, flash is as the last step left it.
StoreReset ==
  /\ pc \in StoreSaving \cup {"saved"}
  /\ pc' = RamImage.pc
  /\ mqttConfig' = RamImage.mqttConfig
  /\ eepromBuffer' = NoBuffer
  /\ hist' = [hist EXCEPT !.crashed = @ \/ pc \in StoreSaving]
  /\ UNCHANGED << eepromToken, eepromBody >>
  /\ StoreFrame

NextStore ==
  \/ StoreLoad
  \/ StoreMerge
  \/ SaveBegin
  \/ SaveWrite
  \/ SavePut
  \/ CommitErase
  \/ CommitToken
  \/ CommitBody
  \/ StoreReset

SpecStore == InitStore /\ [][NextStore]_vars

\* loadConfig ran on storage that a completed saveConfig left
LoadedAfterSave == pc = "loaded" /\ hist.load.done /\ hist.roundTrip

\* C12: a saveConfig that ran to its end, followed by loadConfig, reports a
\* valid record (where loadConfig reports at all) and yields the record saved.
C12_RoundTrip ==
  LoadedAfterSave =>
    /\ ReturnsLoadResult(variant) => hist.load.reported = "valid"
    /\ mqttConfig = hist.savedCfg

C12_Witness ==
  /\ LoadedAfterSave
  /\ ReturnsLoadResult(variant)
  /\ hist.savedCfg.servername = "mqtt.lan"
  /\ hist.load.before # hist.savedCfg

\* C13: when the marker byte is not the token, loadConfig tells its caller
\* that no record is stored and hands back neither body data nor a substitute.
C13_AbsentReported ==
  (pc = "loaded" /\ hist.load.done /\ hist.load.token # STORAGE_TEST_VALUE) =>
    /\ hist.load.reported = "absent"
    /\ mqttConfig = hist.load.before

\* C14: a record whose marker is the token but whose body was not written
\* completely is treated as absent.
C14_TornBodyAbsent ==
  (pc = "loaded" /\ hist.load.done /\ hist.load.token = STORAGE_TEST_VALUE
     /\ hist.load.body = ErasedBody) =>
    /\ hist.load.reported = "absent"
    /\ mqttConfig # ErasedBody

\* C15: storage never holds the marker without a completely written body,
\* whichever step of saveConfig power is lost at.
C15_MarkerAfterBody ==
  eepromToken = STORAGE_TEST_VALUE => eepromBody # ErasedBody

\* C16: connect_to_mqtt is left only with the connection up, and every failed
\* attempt is followed by the 5 s delay and another turn of the loop.
C16_ConnectRetries ==
  [][/\ (pc = "connecting" /\ pc' # "connecting") => connected'
     /\ (pc = "connecting" /\ hist'.failures = hist.failures + 1) =>
          /\ clock' = clock + MQTT_RETRY_DELAY
          /\ pc' = "connecting"
          /\ ~connected']_vars

C16_Witness == pc = "tick" /\ connected /\ hist.failures >= 2

-----------------------------------------------------------------------------
(* The running device under fair scheduling                                *)
(*                                                                         *)
(* The Arduino core calls loop() again whenever it returns, and each       *)
(* statement of loop() and of connect_to_mqtt runs to its end: a step of   *)
(* the sketch that can be taken is taken.  Nothing is assumed of the       *)
(* broker.                                                                 *)

NextLive ==
  \/ LoopBegin
  \/ ConnectFail
  \/ ConnectOK
  \/ Tick
  \/ BrokerDown
  \/ BrokerUp

SpecLive ==
  /\ InitLoop
  /\ [][NextLive]_vars
  /\ WF_vars(LoopBegin)
  /\ WF_vars(ConnectOK)
  /\ WF_vars(Tick)

\* the latest time at which a heartbeat is still due within the run
RecoverBy == MaxClock - MQTT_PUBLISH_HARD_INTERVAL

\* the device has lost its connection and the broker accepts from now on
BrokerBack ==
  /\ pc \in Operational
  /\ ~connected
  /\ brokerUp
  /\ hist.outages = MaxOutages

\* a message went out after the connection was lost
RecoveredPublish ==
  /\ hist.outages = MaxOutages
  /\ hist.lastPub.ok
  /\ hist.lastPub.at >= hist.outageAt

\* C17: once the broker accepts again and keeps accepting, the device is
\* eventually connected again and eventually publishes.
C17_Recovers ==
  /\ BrokerBack ~> connected
  /\ (BrokerBack /\ clock <= RecoverBy) ~> RecoveredPublish

C17_Witness == RecoveredPublish /\ connected /\ hist.failures >= 1

-----------------------------------------------------------------------------
(* A connection that is lost inside a pass of loop()                       *)

\* the connection drops after loop() tested mqttClient.connected(): the
\* publish of this pass, if there is one, returns false
LinkDrop ==
  /\ pc = "tick"
  /\ clock <= MaxEventAt
  /\ connected
  /\ hist.outages < MaxOutages
  /\ brokerUp' = FALSE
  /\ connected' = FALSE
  /\ hist' = [hist EXCEPT !.outages = @ + 1, !.linkHeld = FALSE, !.outageAt = clock]
  /\ UNCHANGED << variant, macAddress, moduleId, wifiAccessPointName,
                  eepromBuffer, epoch, eepromToken, eepromBody, wifiSaved, pc, mqttConfig,
                  shouldSaveConfig, res, now, mqttPublishSoftDeadline,
                  mqttPublishHardDeadline, jsonBuffer, MOTION_DETECTED, DETECTED_MOTION,
                  clock, params, dallasDeviceCount, nullIsZero, env >>

NextDrop ==
  \/ LoopBegin
  \/ ConnectFail
  \/ ConnectOK
  \/ Tick
  \/ SensorChange
  \/ LinkDrop
  \/ BrokerUp

SpecDrop == InitLoop /\ [][NextDrop]_vars

\* C18: after a publish that failed, the next pass of loop() that polls
\* publishes again; it does not wait for the interval or for a change.
C18_RetriesFailedPublish == ~hist.retryMissed

\* C19: setup() never enters a statement from which the sketch can neither
\* reach loop() nor call ESP.restart(), whatever sensors are fitted.
C19_NeverHalts == pc # "halt"

-----------------------------------------------------------------------------
(* The running device when millis() passes 2^31                            *)
(*                                                                         *)
(* long now = millis() turns the unsigned counter into a signed long: one  *)
(* millisecond after LONG_MAX, `now` is the most negative long.  The       *)
(* device has run for 24.8 days; the state is the one its last passes      *)
(* left: a publish at time `epoch`, polls since then, the last of them     *)
(* WrapMargin short of a poll interval before LONG_MAX, so that no         *)
(* deadline was computed past LONG_MAX.                                    *)

\* the interval that the poll block adds to `now`
PollInterval(v, cfg) == SoftDeadlineAfter(v, cfg, 0)

\* the time between two polls of a device that is connected throughout
PollStep(v, cfg) == ((PollInterval(v, cfg) \div LoopMs) + 1) * LoopMs

\* the time from the last publish to the last poll, inputs steady
SincePublish(v, cfg) ==
  IF TwoTimer(v)
  THEN (HardDeadlineAfter(v, cfg, 0) \div PollStep(v, cfg)) * PollStep(v, cfg)
  ELSE 0

\* how long before LONG_MAX the soft deadline falls
WrapMargin == LoopMs \div 4

InitWrap ==
  /\ variant \in Variants
  /\ eepromToken = STORAGE_TEST_VALUE
  /\ eepromBody \in StoredConfigs(variant)
  /\ wifiSaved = TRUE
  /\ pc = "loop"
  /\ mqttConfig = eepromBody
  /\ params = InitialParams(variant, TRUE, eepromBody)
  /\ shouldSaveConfig = FALSE
  /\ res = TRUE
  /\ connected = TRUE
  /\ brokerUp = TRUE
  /\ nullIsZero = FALSE
  /\ env = NominalEnv
  /\ dallasDeviceCount = IF variant = "httds" THEN 1 ELSE 0
  /\ epoch = LONG_MAX - WrapMargin - PollInterval(variant, mqttConfig)
               - SincePublish(variant, mqttConfig)
  /\ clock = SincePublish(variant, mqttConfig) + LoopMs
  /\ now = AddLong(epoch, SincePublish(variant, mqttConfig))
  /\ mqttPublishSoftDeadline = SoftDeadlineAfter(variant, mqttConfig, now)
  /\ mqttPublishHardDeadline =
       IF TwoTimer(variant) THEN HardDeadlineAfter(variant, mqttConfig, epoch) ELSE 0
  /\ jsonBuffer = IF TwoTimer(variant)
                  THEN PollAll(variant, mqttConfig, EmptyJson, env, nullIsZero,
                               dallasDeviceCount).jb
                  ELSE EmptyJson
  /\ MOTION_DETECTED = FALSE
  /\ DETECTED_MOTION = MotionAfterPoll(variant, env, 0)
  /\ macAddress = EspressifMac
  /\ moduleId = ModuleId(variant, macAddress)
  /\ wifiAccessPointName = AccessPointName(variant, macAddress)
  /\ eepromBuffer = NoBuffer
  /\ hist = [FreshHist(1) EXCEPT
               !.sensorsBegun = TRUE,
               !.storeAtBoot = <<eepromToken, eepromBody>>,
               !.attempts = 1,
               !.linkHeld = TRUE,
               !.unchanged = TRUE,
               !.pollAt = SincePublish(variant, mqttConfig),
               !.lastPub = [at |-> 0, now |-> epoch,
                            payload |-> IF TwoTimer(variant) THEN Serialize(jsonBuffer)
                                        ELSE FixedMessage(variant, env),
                            ok |-> TRUE, env |-> env, dirty |-> FALSE,
                            unchanged |-> TRUE, linkHeld |-> TRUE]]

NextWrap ==
  \/ LoopBegin
  \/ Tick
  \/ SensorChange

SpecWrap == InitWrap /\ [][NextWrap]_vars

\* C20: with the broker connected throughout, the poll block and the publish
\* keep their intervals (one pass of loop() allowed on top) while millis()
\* passes 2^31.
C20_WrapSafe ==
  (pc = "loop" /\ hist.outages = 0 /\ hist.failures = 0 /\ hist.pollAt >= 0) =>
    /\ clock - hist.pollAt <= PollInterval(variant, mqttConfig) + LoopMs
    /\ Published =>
         clock - hist.lastPub.at <=
           HardDeadlineAfter(variant, mqttConfig, 0) + PollStep(variant, mqttConfig) + LoopMs

\* the first pass of loop() after setup() has ended
FirstPassDone == pc = "loop" /\ clock > SetupMs(variant)

\* C21: the first pass of loop() after boot runs the poll block and publishes,
\* whatever the sensors read; when the broker accepts, the message goes out.
C21_FirstPassPublishes ==
  FirstPassDone =>
    /\ hist.pollAt >= 0
    /\ Published
    /\ PublishedTwice \/ (hist.lastPub.now = SetupMs(variant) /\ hist.lastPub.ok)

C21_Witness ==
  /\ FirstPassDone
  /\ ~PublishedTwice
  /\ hist.failures = 0
  /\ hist.lastPub.ok
  /\ hist.lastPub.now = SetupMs(variant)
  /\ env # NominalEnv

\* setup() is past wifiManager.autoConnect
PastAutoConnect == pc = "finish" \/ SetupDone

C23_ClientIdIsIdentity ==
  hist.attempts > 0 =>
    /\ hist.clientId = moduleId
    /\ hist.clientId # mqttConfig.servername

\* C24: the access point is named MULTISENSOR- followed by the twelve
\* lowercase hex digits of the station address.
C24_AccessPointName ==
  pc \notin {"boot"} =>
    wifiAccessPointName = "MULTISENSOR-" \o MacString(macAddress, HexLower)

-----------------------------------------------------------------------------
(* One pass of loop(), seen as a step                                      *)

\* the step is the part of loop() after mqttClient.loop()
TickStep == pc = "tick" /\ pc' = "loop"

\* ... and its poll block ran
Polled == hist'.pollAt = clock

\* ... and it called mqttClient.publish
PublishedNow == hist'.lastPub # hist.lastPub

\* the flag that opens the poll block of the motion sketches
MotionFlag ==
  \/ variant = "motion" /\ MOTION_DETECTED
  \/ variant = "mmotion" /\ DETECTED_MOTION # 0

\* the pass left the deadlines, the document and the record of publishes alone
PassIdle ==
  /\ UNCHANGED << mqttPublishSoftDeadline, mqttPublishHardDeadline, jsonBuffer >>
  /\ ~PublishedNow

\* C25 (as claimed): a pass polls iff now >= the soft deadline, and a pass
\* before the deadline does nothing.
C25_PollsFromDeadline ==
  [][TickStep =>
       /\ Polled <=> now >= mqttPublishSoftDeadline
       /\ now < mqttPublishSoftDeadline => PassIdle]_vars

\* C25 (amended): a pass polls iff now > the soft deadline or the motion flag
\* of the motion sketches is set; a pass that does not poll does nothing, and
\* a pass with now equal to the deadline does not poll.
C25_PollsPastDeadline ==
  [][TickStep =>
       /\ Polled <=> (MotionFlag \/ now > mqttPublishSoftDeadline)
       /\ ~Polled => PassIdle]_vars

C25_Witness ==
  /\ FirstPassDone
  /\ now = mqttPublishSoftDeadline
  /\ hist.pollAt < clock - LoopMs
  /\ hist.pollAt >= 0

\* the poll block set a member of the document (and with it `dirty')
Dirty == jsonBuffer' # jsonBuffer

C27_SoftDeadlineSet ==
  (FirstPassDone /\ hist.pollAt = clock - LoopMs) =>
    mqttPublishSoftDeadline = now + SoftInterval(variant, mqttConfig)

\* ... the publish of this pass went out
PublishedOK == PublishedNow /\ hist'.lastPub.ok

\* C28: after a publish that succeeded the hard deadline is now + the hard
\* interval (the configured one in "mhtt"), and nothing else changes it.
C28_HardDeadlineSet ==
  [][(TickStep /\ TwoTimer(variant)) =>
       /\ PublishedOK =>
            mqttPublishHardDeadline' = now + HardInterval(variant, mqttConfig)
       /\ ~PublishedOK => UNCHANGED mqttPublishHardDeadline]_vars

\* C29: a pass whose publish fails, or which does not publish, leaves the
\* document that change detection compares against as it was.
C29_SnapshotOnSuccess ==
  [][(TickStep /\ TwoTimer(variant) /\ ~PublishedOK) => UNCHANGED jsonBuffer]_vars

\* C30: every pass of loop() tests the connection first, then calls
\* mqttClient.loop() exactly once, and only then polls and publishes.
C30_KeepaliveOrder ==
  FirstPassDone =>
    /\ Len(hist.events) >= 2
    /\ hist.events[1] = "connected?"
    /\ hist.events[2] = "mqttClient.loop"
    /\ \A i \in 3..Len(hist.events) : hist.events[i] \in {"poll", "publish"}

C30_Witness ==
  /\ FirstPassDone
  /\ hist.failures >= 1
  /\ hist.events = <<"connected?", "mqttClient.loop", "poll", "publish">>

-----------------------------------------------------------------------------
(* Failures of one channel, configuration frame, triggers                  *)

\* the last message carries the current level of every enabled switch and
\* the current Dallas reading
OthersReported ==
  LET m == hist.lastPub.payload
      e == hist.lastPub.env
  IN  /\ \A i \in 1..SwitchCount(variant) :
           (HasAliases(variant) /\ mqttConfig.sw[i] # "")
             => /\ mqttConfig.sw[i] \in DOMAIN m
                /\ m[mqttConfig.sw[i]] = e.pin[i]
      /\ (variant = "httds" /\ dallasDeviceCount > 0)
           => (DallasKey \in DOMAIN m /\ m[DallasKey] = Round(e.ds))
      /\ variant = "tilt" => m["tilt"] = e.pin[1]

\* C31: a message published while AM2322.read() fails carries 999 for
\* humidity and temperature, the keys of the failed channel, and the current
\* value of every other enabled channel.
C31_ChannelIsolation ==
  (Published /\ HasAM2322(variant) /\ hist.lastPub.env.am = "error")
    => /\ {"humidity", "temperature"} \subseteq DOMAIN hist.lastPub.payload
       /\ hist.lastPub.payload["humidity"] = Sentinel(variant)
       /\ hist.lastPub.payload["temperature"] = Sentinel(variant)
       /\ OthersReported

\* C32: a poll that finds the AM2322 not connected leaves 999 in the
\* document for humidity and for temperature, so later messages carry 999
\* and not the values read before.
C32_AbsentUnavailable ==
  [][(TickStep /\ Polled /\ TwoTimer(variant) /\ env.am = "absent")
       => /\ jsonBuffer'["humidity"] = SENSOR_UNDEFINED_VALUE
          /\ jsonBuffer'["temperature"] = SENSOR_UNDEFINED_VALUE]_vars

\* C33: no step taken while the device is operational changes mqttConfig or
\* the stored token and struct; a step that changes the store belongs to a
\* boot whose portal form was submitted.
C33_ConfigFrame ==
  [][/\ pc \in Operational
          => /\ mqttConfig' = mqttConfig
             /\ eepromToken' = eepromToken
             /\ eepromBody' = eepromBody
     /\ <<eepromToken', eepromBody'>> # <<eepromToken, eepromBody>>
          => hist.submitted]_vars

\* an operational device that saved a submitted form in this boot and has
\* published twice since
C33_Witness ==
  pc \in Operational /\ hist.saved /\ StoreChanged /\ PublishedTwice

\* the step of setup() that runs saveConfig
SaveStep == pc = "finish" /\ hist'.saved

\* C34: shouldSaveConfig becomes true only in the step in which the portal
\* form is submitted; saveConfig runs only with the flag set by a submit of
\* the same boot, and not after an earlier save of that boot.
C34_SaveOncePerBoot ==
  [][/\ (shouldSaveConfig' /\ ~shouldSaveConfig)
          => (hist'.submitted /\ ~hist.submitted)
     /\ SaveStep => (shouldSaveConfig /\ hist.submitted /\ ~hist.saved)]_vars

\* a second boot in which the form was submitted and saved
C34_Witness ==
  hist.boots = 2 /\ shouldSaveConfig /\ hist.submitted /\ hist.saved

-----------------------------------------------------------------------------
(* The interrupt handler against the poll block                            *)

\* edges of the PIR input in one run
MaxIsrEdges == 2

\* the sketches that attach motionDetectionHandler
HasInterrupt(v) == v \in {"wemos", "v10", "motion"}

InitIsr ==
  /\ InitLoop
  /\ HasInterrupt(variant)
  /\ brokerUp

\* the PIR level changes at any point of loop(); the handler runs at once
IsrEdge ==
  /\ pc \in {"loop", "tick", "block"}
  /\ clock <= MaxEventAt
  /\ hist.edges < MaxIsrEdges
  /\ LET level == 1 - env.pir
         isr   == motionDetectionHandler(variant, level, MOTION_DETECTED, DETECTED_MOTION)
     IN  /\ env' = [env EXCEPT !.pir = level]
         /\ MOTION_DETECTED' = isr.latch
         /\ DETECTED_MOTION' = isr.motion
         /\ hist' = [hist EXCEPT !.edges = @ + 1,
                                 !.unchanged = FALSE,
                                 !.edge = @ \/ variant = "motion",
                                 !.rose = @ \/ (level = 1 /\ pc # "block")]
  /\ UNCHANGED << variant, macAddress, moduleId, wifiAccessPointName,
                  eepromBuffer, epoch, eepromToken, eepromBody, wifiSaved, pc, mqttConfig,
                  shouldSaveConfig, res, connected, now, mqttPublishSoftDeadline,
                  mqttPublishHardDeadline, jsonBuffer, clock, params, dallasDeviceCount,
                  nullIsZero, brokerUp >>

\* the test that opens the poll block and the reads of the sensors:
\* DETECTED_MOTION = digitalRead(GPIO_PIR_SENSOR)
BlockEnter ==
  /\ pc = "tick"
  /\ LET polls == Polls(variant, now, mqttPublishSoftDeadline, MOTION_DETECTED,
                        DETECTED_MOTION)
     IN  /\ DETECTED_MOTION' = IF polls THEN env.pir ELSE DETECTED_MOTION
         /\ pc' = IF polls THEN "block" ELSE "loop"
         /\ clock' = IF polls THEN clock ELSE clock + LoopMs
         /\ hist' = [hist EXCEPT !.edge = hist.edge /\ ~polls,
                                 !.pollAt = IF polls THEN clock ELSE hist.pollAt]
  /\ UNCHANGED << variant, macAddress, moduleId, wifiAccessPointName,
                  eepromBuffer, epoch, eepromToken, eepromBody, wifiSaved, mqttConfig,
                  shouldSaveConfig, res, connected, now, mqttPublishSoftDeadline,
                  mqttPublishHardDeadline, jsonBuffer, MOTION_DETECTED, params,
                  dallasDeviceCount, nullIsZero, brokerUp, env >>

\* sprintf of the status message
StatusMessage(e, motion) ==
  [temperature |-> e.ds, motion |-> motion, lux |-> e.lux]

\* the rest of the poll block: sprintf, publish, clear the flags, new deadline
BlockLeave ==
  /\ pc = "block"
  /\ MOTION_DETECTED' = IF variant = "motion" THEN FALSE ELSE MOTION_DETECTED
  /\ DETECTED_MOTION' = IF variant \in {"wemos", "v10"} THEN 0 ELSE DETECTED_MOTION
  /\ mqttPublishSoftDeadline' = SoftDeadlineAfter(variant, mqttConfig, now)
  /\ hist' = [hist EXCEPT
                !.lastPub = [at |-> clock, now |-> now,
                             payload |-> StatusMessage(env, DETECTED_MOTION),
                             ok |-> connected, env |-> env, dirty |-> FALSE,
                             unchanged |-> hist.unchanged,
                             linkHeld |-> hist.linkHeld /\ connected],
                !.prevPubAt = hist.lastPub.at,
                !.unchanged = TRUE,
                !.linkHeld = connected,
                !.rose = FALSE]
  /\ clock' = clock + LoopMs
  /\ pc' = "loop"
  /\ UNCHANGED << variant, macAddress, moduleId, wifiAccessPointName,
                  eepromBuffer, epoch, eepromToken, eepromBody, wifiSaved, mqttConfig,
                  shouldSaveConfig, res, connected, now, mqttPublishHardDeadline,
                  jsonBuffer, params, dallasDeviceCount, nullIsZero, brokerUp, env >>

NextIsr ==
  \/ LoopBegin
  \/ ConnectOK
  \/ BlockEnter
  \/ BlockLeave
  \/ IsrEdge

SpecIsr == InitIsr /\ [][NextIsr]_vars

\* the step that ends the poll block
BlockLeaveStep == pc = "block" /\ pc' = "loop"

\* C35: in "motion", when motionDetectionHandler ran after loop() last tested
\* MOTION_DETECTED, the latch is still set when the poll block has ended, so
\* that the next pass sees it and publishes.
C35_NoTriggerLost ==
  [][(BlockLeaveStep /\ variant = "motion" /\ hist.edge) => MOTION_DETECTED']_vars

\* the sketches with one deadline and no motion flag in the poll test
SingleInterval(v) == ~TwoTimer(v) /\ ~TriggerDriven(v)

\* C36: in the single-interval sketches a pass with now past the deadline
\* polls, publishes and sets the deadline to now + 30000; a pass with now
\* before the deadline publishes nothing and leaves the deadline alone.
C36_SingleInterval ==
  [][(TickStep /\ SingleInterval(variant)) =>
       /\ now > mqttPublishSoftDeadline
            => /\ Polled
               /\ PublishedNow
               /\ mqttPublishSoftDeadline' = now + MQTT_PUBLISH_INTERVAL
       /\ now < mqttPublishSoftDeadline
            => /\ ~PublishedNow
               /\ mqttPublishSoftDeadline' = mqttPublishSoftDeadline]_vars

\* after the second publish a pass has run before the new deadline
C36_Witness ==
  /\ SingleInterval(variant)
  /\ pc = "loop"
  /\ PublishedTwice
  /\ now < mqttPublishSoftDeadline
  /\ hist.lastPub.at < clock - LoopMs

\* C37: in the trigger-driven sketches a pass that publishes again while no
\* input has changed since the publish before it does so only with now past
\* the deadline that publish set.
C37_OnePublishPerTrigger ==
  [][(TickStep /\ TriggerDriven(variant) /\ Published /\ hist.unchanged /\ PublishedNow)
       => now > mqttPublishSoftDeadline]_vars

\* C38: in "v10" and "wemos", when motionDetectionHandler recorded a rising
\* edge since the last publish, the next message carries motion = 1,
\* whatever the level of the input when the poll block runs.
C38_EventReported ==
  [][(BlockLeaveStep /\ variant \in {"v10", "wemos"} /\ hist.rose)
       => hist'.lastPub.payload.motion = 1]_vars

-----------------------------------------------------------------------------
(* Switch names that collide                                               *)

\* names typed into the portal that are not distinct keys: two switches
\* with one name, a switch named like a key of the AM2322
CollidingAliases ==
  {<<"door", "door", "", "">>, <<"humidity", "", "", "">>, <<"", "temperature", "", "">>}

CollidingConfigs(v) ==
  {[CompiledParams(v) EXCEPT !.servername = "mqtt.lan", !.sw = a] : a \in CollidingAliases}

\* a two-timer device configured with such names, as setup() leaves it
InitAlias ==
  /\ variant \in {v \in Variants : TwoTimer(v)}
  /\ eepromToken = STORAGE_TEST_VALUE
  /\ eepromBody \in CollidingConfigs(variant)
  /\ wifiSaved = TRUE
  /\ pc = "loop"
  /\ mqttConfig = eepromBody
  /\ params = InitialParams(variant, TRUE, eepromBody)
  /\ shouldSaveConfig = FALSE
  /\ res = TRUE
  /\ connected = FALSE
  /\ now = 0
  /\ mqttPublishSoftDeadline = 0
  /\ mqttPublishHardDeadline = 0
  /\ jsonBuffer = EmptyJson
  /\ MOTION_DETECTED = FALSE
  /\ DETECTED_MOTION = 0
  /\ dallasDeviceCount = IF variant = "httds" THEN 1 ELSE 0
  /\ clock = SetupMs(variant)
  /\ nullIsZero \in BOOLEAN
  /\ brokerUp = TRUE
  /\ env \in InitialEnvs(variant)
  /\ macAddress = EspressifMac
  /\ moduleId = ModuleId(variant, macAddress)
  /\ wifiAccessPointName = AccessPointName(variant, macAddress)
  /\ eepromBuffer = NoBuffer
  /\ epoch = 0
  /\ hist = [FreshHist(1) EXCEPT !.sensorsBegun = TRUE,
                                !.storeAtBoot = <<eepromToken, eepromBody>>]

NextAlias ==
  \/ LoopBegin
  \/ ConnectOK
  \/ Tick

SpecAlias == InitAlias /\ [][NextAlias]_vars

\* the poll block of this pass would set `dirty'
DetectorDirty ==
  PollAll(variant, mqttConfig, jsonBuffer, env, nullIsZero, dallasDeviceCount).dirty

\* C39: while no input changes, a pass of a two-timer sketch that polls
\* after the first poll finds nothing dirty, whatever the switch names are.
C39_SteadyNotDirty ==
  (/\ pc = "tick"
   /\ TwoTimer(variant)
   /\ SteadyInputs
   /\ hist.pollAt >= 0
   /\ Polls(variant, now, mqttPublishSoftDeadline, MOTION_DETECTED, DETECTED_MOTION))
    => ~DetectorDirty

\* C40: when a boot that loaded a valid configuration runs the portal and
\* the form is submitted as presented, the token and struct that saveConfig
\* writes are the ones the boot found.
C40_UneditedKeepsStore ==
  (hist.saved /\ hist.unedited /\ ~hist.absentAtBoot /\ SetupDone)
    => <<eepromToken, eepromBody>> = hist.storeAtBoot

====
